---------------------------- MODULE Spec2Model ----------------------------
(***************************************************************************)
(* Cascadia scoring engine: CascadiaScorer (src/cascadia_scorer.py) with   *)
(* the scoring tables of run_analysis.main (src/run_analysis.py), and the  *)
(* token-position detectors of CascadiaScoringRules (src/scoring_rules.py).*)
(*                                                                         *)
(* A Python dict is a TLA+ function whose DOMAIN is the set of its keys.   *)
(* A key of a scoring table is a record [kind, n]:                         *)
(*   kind = "digits"  the string of the decimal digits of n   ("3")        *)
(*   kind = "plus"    the string of the digits of n and a '+' ("4+")       *)
(*   kind = "int"     the integer n                           ( 3 )        *)
(*   kind = "word"    a string with no digit                  ("pair")     *)
(* so that str(3), "3+" and 3 are three different keys, as in Python.      *)
(* The animal_explanations of a PlayerScore are display strings that no    *)
(* score depends on; they are left out of the records.                     *)
(***************************************************************************)
EXTENDS Integers, Sequences, FiniteSets, TLC

VARIABLES
    player_boards,   \* score_game's argument: the list of PlayerBoard
    scoring_cards,   \* score_game's argument: species -> card
    player_scores,   \* the list of PlayerScore being built and resolved
    pc,              \* "boards" | "scored" | "resolved" | "done" | "failed"
    error,           \* the exception that ended the run, or "none"
    runs,            \* how many times the bonus resolver has been applied
    winner,          \* what determine_winner returned, NoWinner before it
    positions,       \* the token / tile list handed to CascadiaScoringRules
    detected         \* what the last CascadiaScoringRules call returned

vars == <<player_boards, scoring_cards, player_scores, pc, error, runs,
          winner, positions, detected>>

\* determine_winner has not returned
NoWinner == [player_id |-> 0, how |-> "none", points |-> 0]

\* no CascadiaScoringRules call has returned for the current list
NoResult == [op |-> "none"]

-----------------------------------------------------------------------------
(* Bounds of the model *)

MaxPlayers == 4
MaxHab == 3
MaxRuns == 2

-----------------------------------------------------------------------------
(* Dict and list helpers *)

\* dict.get(key, default)
Get(d, key, default) == IF key \in DOMAIN d THEN d[key] ELSE default

\* sum(d.values())
RECURSIVE SumValues(_)
SumValues(d) ==
    IF DOMAIN d = {} THEN 0
    ELSE LET k == CHOOSE x \in DOMAIN d : TRUE
             rest == [x \in DOMAIN d \ {k} |-> d[x]]
         IN  d[k] + SumValues(rest)

\* d[key] = value on a copy of d
Put(d, key, value) ==
    [x \in DOMAIN d \cup {key} |-> IF x = key THEN value ELSE d[x]]

\* [s for s in scores if s[1] == v]
RECURSIVE Filter(_, _)
Filter(scores, v) ==
    IF scores = <<>> THEN <<>>
    ELSE IF Head(scores)[2] = v
         THEN <<Head(scores)>> \o Filter(Tail(scores), v)
         ELSE Filter(Tail(scores), v)

\* One step of a stable descending sort: x goes after every element whose
\* score is at least its own.
RECURSIVE InsertDesc(_, _)
InsertDesc(sorted, x) ==
    IF sorted = <<>> THEN <<x>>
    ELSE IF Head(sorted)[2] >= x[2]
         THEN <<Head(sorted)>> \o InsertDesc(Tail(sorted), x)
         ELSE <<x>> \o sorted

\* scores.sort(key=lambda x: x[1], reverse=True): stable, equal scores keep
\* their list order.
RECURSIVE SortDesc(_)
SortDesc(scores) ==
    IF scores = <<>> THEN <<>>
    ELSE InsertDesc(SortDesc(SubSeq(scores, 1, Len(scores) - 1)),
                    scores[Len(scores)])

-----------------------------------------------------------------------------
(* Scoring tables *)

Species == {"bear", "elk", "salmon", "hawk", "fox"}

\* str(n) for a non-negative integer n
Str(n) == [kind |-> "digits", n |-> n]
\* the string "n+"
Plus(n) == [kind |-> "plus", n |-> n]
\* the integer n used as a dict key
IntKey(n) == [kind |-> "int", n |-> n]
\* the string "pair"
PairKey == [kind |-> "word", n |-> 0]

\* {}
EmptyDict == <<>>

\* a dict literal, from its set of <<key, value>> items
Dict(items) ==
    [k \in {it[1] : it \in items} |-> (CHOOSE it \in items : it[1] = k)[2]]

\* scoring_rules of run_analysis.main (Card A)
StandardCards ==
    Dict({
      <<"bear",   Dict({<<"rule", "Pairs of exactly 2 bears">>,
                        <<"scoring", Dict({<<PairKey, 4>>})>>})>>,
      <<"elk",    Dict({<<"rule", "Straight lines of elk">>,
                        <<"scoring", Dict({<<Str(1), 2>>, <<Str(2), 5>>,
                                           <<Str(3), 9>>, <<Plus(4), 13>>})>>})>>,
      <<"salmon", Dict({<<"rule", "Salmon runs">>,
                        <<"scoring", Dict({<<Str(1), 2>>, <<Str(2), 5>>,
                                           <<Str(3), 8>>, <<Str(4), 11>>,
                                           <<Plus(5), 14>>})>>})>>,
      <<"hawk",   Dict({<<"rule", "Isolated hawks">>,
                        <<"scoring", Dict({<<Str(1), 2>>, <<Str(2), 5>>,
                                           <<Str(3), 8>>, <<Str(4), 11>>,
                                           <<Str(5), 14>>, <<Str(6), 18>>,
                                           <<Str(7), 22>>, <<Plus(8), 26>>})>>})>>,
      <<"fox",    Dict({<<"rule", "Unique neighbors">>,
                        <<"scoring", Dict({<<Str(1), 1>>, <<Str(2), 2>>,
                                           <<Str(3), 3>>, <<Str(4), 4>>,
                                           <<Str(5), 5>>})>>})>>
    })

\* scoring_cards.get(species, {}).get('scoring', default)
RulesOf(cards, species, default) ==
    Get(Get(cards, species, EmptyDict), "scoring", default)

-----------------------------------------------------------------------------
(* _score_player, species by species *)

\* 1. Bears: bear_pairs * pair_val, pair_val 4 unless the card has "pair"
BearScore(patterns, cards) ==
    LET bear_pairs == Get(patterns, "bear_pairs", 0)
        pair_val ==
            IF "bear" \in DOMAIN cards
               /\ PairKey \in DOMAIN Get(cards["bear"], "scoring", EmptyDict)
            THEN cards["bear"]["scoring"][PairKey]
            ELSE 4
    IN  bear_pairs * pair_val

\* the default of elk_rules
ElkDefault ==
    Dict({<<Str(1), 2>>, <<Str(2), 5>>, <<Str(3), 9>>, <<Plus(4), 13>>})

\* 2. Elk: the points of one line
ElkPoints(elk_rules, length) ==
    IF Str(length) \in DOMAIN elk_rules THEN elk_rules[Str(length)]
    ELSE IF length >= 4 THEN Get(elk_rules, Plus(4), 13)
    ELSE 0

\* the loop over elk_lines: elk_total
RECURSIVE ElkTotal(_, _)
ElkTotal(elk_rules, elk_lines) ==
    IF elk_lines = <<>> THEN 0
    ELSE ElkPoints(elk_rules, Head(elk_lines))
         + ElkTotal(elk_rules, Tail(elk_lines))

ElkScore(patterns, cards) ==
    ElkTotal(RulesOf(cards, "elk", ElkDefault),
             Get(patterns, "elk_lines", <<>>))

\* 3. Salmon: the points of one run
SalmonPoints(salmon_rules, length) ==
    IF Str(length) \in DOMAIN salmon_rules THEN salmon_rules[Str(length)]
    ELSE IF length >= 5 THEN Get(salmon_rules, Plus(5), 0)
    ELSE 0

\* the loop over salmon_runs: salmon_total
RECURSIVE SalmonTotal(_, _)
SalmonTotal(salmon_rules, salmon_runs) ==
    IF salmon_runs = <<>> THEN 0
    ELSE SalmonPoints(salmon_rules, Head(salmon_runs))
         + SalmonTotal(salmon_rules, Tail(salmon_runs))

SalmonScore(patterns, cards) ==
    SalmonTotal(RulesOf(cards, "salmon", EmptyDict),
                Get(patterns, "salmon_runs", <<>>))

\* k.isdigit() raises AttributeError when the key k is an int
IsDigitRaises(hawk_rules) == \E k \in DOMAIN hawk_rules : k.kind = "int"

\* [k for k in hawk_rules.keys() if k.isdigit()], as the set of int(k)
DigitKeys(hawk_rules) == {k.n : k \in {x \in DOMAIN hawk_rules : x.kind = "digits"}}

Max(S) == CHOOSE m \in S : \A x \in S : x <= m

\* 4. Hawks: does the lookup raise
HawkRaises(hawk_rules, isolated_hawks) ==
    /\ Str(isolated_hawks) \notin DOMAIN hawk_rules
    /\ isolated_hawks > 0
    /\ IsDigitRaises(hawk_rules)

\* 4. Hawks: the points of the count of isolated hawks
HawkPoints(hawk_rules, isolated_hawks) ==
    IF Str(isolated_hawks) \in DOMAIN hawk_rules
    THEN hawk_rules[Str(isolated_hawks)]
    ELSE IF isolated_hawks > 0 /\ DigitKeys(hawk_rules) # {}
            /\ isolated_hawks >= Max(DigitKeys(hawk_rules))
         THEN hawk_rules[Str(Max(DigitKeys(hawk_rules)))]
         ELSE 0

HawkScore(patterns, cards) ==
    HawkPoints(RulesOf(cards, "hawk", EmptyDict),
               Get(patterns, "isolated_hawks", 0))

\* the default of fox_rules
FoxDefault ==
    Dict({<<Str(1), 1>>, <<Str(2), 2>>, <<Str(3), 3>>, <<Str(4), 4>>,
          <<Str(5), 5>>})

\* 5. Fox: the points of one fox
FoxPoints(fox_rules, count) == Get(fox_rules, Str(count), count)

\* the loop over fox_neighbors: fox_total
RECURSIVE FoxTotal(_, _)
FoxTotal(fox_rules, fox_neighbors) ==
    IF fox_neighbors = <<>> THEN 0
    ELSE FoxPoints(fox_rules, Head(fox_neighbors))
         + FoxTotal(fox_rules, Tail(fox_neighbors))

FoxScore(patterns, cards) ==
    FoxTotal(RulesOf(cards, "fox", FoxDefault),
             Get(patterns, "fox_neighbors", <<>>))

\* _score_player raises (the only raising lookup is the hawks')
score_player_raises(board, cards) ==
    HawkRaises(RulesOf(cards, "hawk", EmptyDict),
               Get(board.wildlife_patterns, "isolated_hawks", 0))

\* total (before majority bonuses)
ProvisionalTotal(animal_scores, habitat_total, nature_score) ==
    SumValues(animal_scores) + habitat_total + nature_score

\* _score_player: the PlayerScore of one board
score_player(board, cards) ==
    LET patterns == board.wildlife_patterns
        animal_scores ==
            [sp \in Species |->
                CASE sp = "bear"   -> BearScore(patterns, cards)
                  [] sp = "elk"    -> ElkScore(patterns, cards)
                  [] sp = "salmon" -> SalmonScore(patterns, cards)
                  [] sp = "hawk"   -> HawkScore(patterns, cards)
                  [] sp = "fox"    -> FoxScore(patterns, cards)]
        habitat_scores == board.largest_habitats
        habitat_total == SumValues(habitat_scores)
    IN  [player_id        |-> board.player_id,
         animal_scores    |-> animal_scores,
         habitat_scores   |-> habitat_scores,
         habitat_total    |-> habitat_total,
         nature_tokens    |-> board.nature_tokens,
         majority_bonuses |-> EmptyDict,
         total_score      |-> ProvisionalTotal(animal_scores, habitat_total,
                                               board.nature_tokens)]

-----------------------------------------------------------------------------
(* _calculate_majority_bonuses *)

terrain_types == <<"mountain", "forest", "prairie", "wetland", "river">>

Terrains == {terrain_types[i] : i \in 1..Len(terrain_types)}

\* _add_bonus with `+=` for `=`: the bonus is added to the entry
add_bonus_accumulating(ps_list, player_id, terrain, bonus) ==
    LET hits == {i \in 1..Len(ps_list) : ps_list[i].player_id = player_id}
    IN  IF hits = {} THEN ps_list
        ELSE LET first == CHOOSE i \in hits : \A j \in hits : i <= j
                 old == ps_list[first].majority_bonuses
             IN  [ps_list EXCEPT ![first].majority_bonuses =
                      Put(old, terrain, Get(old, terrain, 0) + bonus)]

\* _add_bonus: the first record with this player_id gets
\* majority_bonuses[terrain] = bonus; no record with the id, no change.
add_bonus(ps_list, player_id, terrain, bonus) ==
    LET hits == {i \in 1..Len(ps_list) : ps_list[i].player_id = player_id}
    IN  IF hits = {} THEN ps_list
        ELSE LET first == CHOOSE i \in hits : \A j \in hits : i <= j
             IN  [ps_list EXCEPT ![first].majority_bonuses =
                      Put(ps_list[first].majority_bonuses, terrain, bonus)]

\* for winner in winners: self._add_bonus(player_scores, winner[0], terrain, bonus)
RECURSIVE AddEach(_, _, _, _)
AddEach(ps_list, winners, terrain, bonus) ==
    IF winners = <<>> THEN ps_list
    ELSE AddEach(add_bonus(ps_list, Head(winners)[1], terrain, bonus),
                 Tail(winners), terrain, bonus)

\* scores: the (player_id, habitat score) pairs of a terrain, sorted
TerrainScores(ps_list, terrain) ==
    SortDesc([i \in 1..Len(ps_list) |->
                 <<ps_list[i].player_id,
                   Get(ps_list[i].habitat_scores, terrain, 0)>>])

\* the 2-player rule without `and scores[0][1] > 0`
TwoPlayerRule_tie_at_zero(ps_list, scores, terrain) ==
    IF scores[1][2] > scores[2][2]
    THEN add_bonus(ps_list, scores[1][1], terrain, 2)
    ELSE IF scores[1][2] = scores[2][2]
         THEN add_bonus(add_bonus(ps_list, scores[1][1], terrain, 1),
                        scores[2][1], terrain, 1)
         ELSE ps_list

\* num_players == 2: winner gets 2, tie = 1 each
TwoPlayerRule(ps_list, scores, terrain) ==
    IF scores[1][2] > scores[2][2]
    THEN add_bonus(ps_list, scores[1][1], terrain, 2)
    ELSE IF scores[1][2] = scores[2][2] /\ scores[1][2] > 0
         THEN add_bonus(add_bonus(ps_list, scores[1][1], terrain, 1),
                        scores[2][1], terrain, 1)
         ELSE ps_list

\* the check for second place giving 1 to every player tied for second
SecondPlace_every_tied(ps_list, scores, terrain) ==
    IF Len(scores) > 1 /\ scores[2][2] > 0
    THEN AddEach(ps_list, Filter(scores, scores[2][2]), terrain, 1)
    ELSE ps_list

\* the check for second place, after a clear winner
SecondPlace(ps_list, scores, terrain) ==
    IF Len(scores) > 1
    THEN LET second_score == scores[2][2]
             tied_for_second == Filter(scores, second_score)
         IN  IF second_score > 0 /\ Len(tied_for_second) = 1
             THEN add_bonus(ps_list, tied_for_second[1][1], terrain, 1)
             ELSE ps_list
    ELSE ps_list

\* the 3-4 player rule without `if max_score == 0: continue`
MultiPlayerRule_no_zero_check(ps_list, scores, terrain) ==
    LET tied_for_first == Filter(scores, scores[1][2])
    IN  IF Len(tied_for_first) = 1
        THEN SecondPlace(
                 add_bonus(ps_list, tied_for_first[1][1], terrain, 3),
                 scores, terrain)
        ELSE IF Len(tied_for_first) = 2
             THEN AddEach(ps_list, tied_for_first, terrain, 2)
             ELSE AddEach(ps_list, tied_for_first, terrain, 1)

\* the 3-4 player rule with `>= 2` for `== 2`: every tie for first gives 2
MultiPlayerRule_any_tie_two(ps_list, scores, terrain) ==
    LET tied_for_first == Filter(scores, scores[1][2])
    IN  IF scores[1][2] = 0 THEN ps_list
        ELSE IF Len(tied_for_first) = 1
             THEN SecondPlace(
                      add_bonus(ps_list, tied_for_first[1][1], terrain, 3),
                      scores, terrain)
             ELSE AddEach(ps_list, tied_for_first, terrain, 2)

\* 3-4 players (every player count but 2); scores is not empty
MultiPlayerRule(ps_list, scores, terrain) ==
    LET max_score == scores[1][2]
        tied_for_first == Filter(scores, max_score)
    IN  IF max_score = 0 THEN ps_list
        ELSE IF Len(tied_for_first) = 1
             THEN SecondPlace(
                      add_bonus(ps_list, tied_for_first[1][1], terrain, 3),
                      scores, terrain)
             ELSE IF Len(tied_for_first) = 2
                  THEN AddEach(ps_list, tied_for_first, terrain, 2)
                  ELSE AddEach(ps_list, tied_for_first, terrain, 1)

\* the body of the loop over terrain_types
ResolveTerrain(ps_list, terrain) ==
    IF Len(ps_list) = 2
    THEN TwoPlayerRule(ps_list, TerrainScores(ps_list, terrain), terrain)
    ELSE MultiPlayerRule(ps_list, TerrainScores(ps_list, terrain), terrain)

\* for terrain in terrain_types
RECURSIVE ResolveTerrains(_, _)
ResolveTerrains(ps_list, terrains) ==
    IF terrains = <<>> THEN ps_list
    ELSE ResolveTerrains(ResolveTerrain(ps_list, Head(terrains)),
                         Tail(terrains))

\* totals patched with `+=` the bonuses instead of recomputed
RecalculateTotals_patched(ps_list) ==
    [i \in 1..Len(ps_list) |->
        [ps_list[i] EXCEPT !.total_score =
            ps_list[i].total_score + SumValues(ps_list[i].majority_bonuses)]]

\* Recalculate totals
RecalculateTotals(ps_list) ==
    [i \in 1..Len(ps_list) |->
        [ps_list[i] EXCEPT !.total_score =
            SumValues(ps_list[i].animal_scores) + ps_list[i].habitat_total
            + SumValues(ps_list[i].majority_bonuses)
            + ps_list[i].nature_tokens]]

\* scores[0] of an empty list raises IndexError (no player, not 2 players)
majority_bonuses_raises(ps_list) == Len(ps_list) = 0

calculate_majority_bonuses(ps_list) ==
    RecalculateTotals(ResolveTerrains(ps_list, terrain_types))

-----------------------------------------------------------------------------
(* determine_winner *)

\* the sort key with the nature_tokens left out of it
KeyAtLeast_total_only(a, b) == a.total_score >= b.total_score

\* the sort key (total_score, nature_tokens) of a is at least that of b
KeyAtLeast(a, b) ==
    \/ a.total_score > b.total_score
    \/ a.total_score = b.total_score /\ a.nature_tokens >= b.nature_tokens

\* One step of the stable descending sort by the key
RECURSIVE InsertByKey(_, _)
InsertByKey(sorted, x) ==
    IF sorted = <<>> THEN <<x>>
    ELSE IF KeyAtLeast(Head(sorted), x)
         THEN <<Head(sorted)>> \o InsertByKey(Tail(sorted), x)
         ELSE <<x>> \o sorted

\* sorted(player_scores, key=lambda x: (x.total_score, x.nature_tokens),
\*        reverse=True): stable, equal keys keep their list order
RECURSIVE SortByKey(_)
SortByKey(ps_list) ==
    IF ps_list = <<>> THEN <<>>
    ELSE InsertByKey(SortByKey(SubSeq(ps_list, 1, Len(ps_list) - 1)),
                     ps_list[Len(ps_list)])

\* sorted_scores[0] of an empty list raises IndexError
determine_winner_raises(ps_list) == Len(ps_list) = 0

\* determine_winner: (winner.player_id, explanation); the explanation is
\* "wins (tied, victory shared)", "wins on tiebreaker (nature tokens)" or
\* "wins with <points> points"
determine_winner(ps_list) ==
    LET sorted_scores == SortByKey(ps_list)
        first == sorted_scores[1]
    IN  IF Len(sorted_scores) > 1
           /\ sorted_scores[1].total_score = sorted_scores[2].total_score
        THEN IF sorted_scores[1].nature_tokens = sorted_scores[2].nature_tokens
             THEN [player_id |-> first.player_id, how |-> "shared",
                   points |-> 0]
             ELSE [player_id |-> first.player_id, how |-> "tiebreaker",
                   points |-> 0]
        ELSE [player_id |-> first.player_id, how |-> "points",
              points |-> first.total_score]

-----------------------------------------------------------------------------
(* The boards a game is scored from *)

\* nature-token counts a board is given
TokenPlans == {"none", "odd", "all"}

TokensAt(plan, i) ==
    CASE plan = "none" -> 0
      [] plan = "odd"  -> i % 2
      [] plan = "all"  -> 1

\* largest_habitats: the river key is missing when k = 0
HabitatsOf(h, k) ==
    LET base == Dict({<<"mountain", h>>, <<"forest", MaxHab - h>>,
                      <<"prairie", h % 2>>, <<"wetland", 1>>})
    IN  IF k = 0 THEN base ELSE Put(base, "river", k)

\* wildlife_patterns: the salmon_runs key is missing when k = 0
PatternsOf(h, k) ==
    LET base == Dict({<<"bear_pairs", k>>, <<"elk_lines", <<h + 1>>>>,
                      <<"isolated_hawks", h>>, <<"fox_neighbors", <<k, h>>>>})
    IN  IF k = 0 THEN base ELSE Put(base, "salmon_runs", <<h + 2, 1>>)

\* a PlayerBoard (its animals counts are never read by the scorer)
BoardOf(id, h, k) ==
    [player_id         |-> id,
     nature_tokens     |-> k,
     largest_habitats  |-> HabitatsOf(h, k),
     wildlife_patterns |-> PatternsOf(h, k)]

\* player ids: 1..n, or with the second board carrying the first one's id
IdAt(dup, i) == IF dup /\ i = 2 THEN 1 ELSE i

-----------------------------------------------------------------------------
(* score_game, in its two phases, and the resolver applied again *)

Init ==
    /\ \E n \in 0..MaxPlayers :
         \E hs \in [1..n -> 0..MaxHab], plan \in TokenPlans, dup \in BOOLEAN :
            player_boards =
                [i \in 1..n |-> BoardOf(IdAt(dup, i), hs[i], TokensAt(plan, i))]
    /\ scoring_cards = StandardCards
    /\ player_scores = <<>>
    /\ pc = "boards"
    /\ error = "none"
    /\ runs = 0
    /\ winner = NoWinner
    /\ positions = <<>>
    /\ detected = NoResult

\* for board in player_boards: player_scores.append(_score_player(...))
ScorePlayers ==
    /\ pc = "boards"
    /\ IF \E i \in 1..Len(player_boards) :
             score_player_raises(player_boards[i], scoring_cards)
       THEN /\ pc' = "failed"
            /\ error' = "AttributeError"
            /\ UNCHANGED player_scores
       ELSE /\ pc' = "scored"
            /\ player_scores' =
                   [i \in 1..Len(player_boards) |->
                       score_player(player_boards[i], scoring_cards)]
            /\ UNCHANGED error
    /\ UNCHANGED <<player_boards, scoring_cards, runs, winner, positions,
                   detected>>

\* player_scores = self._calculate_majority_bonuses(player_scores)
CalculateMajorityBonuses ==
    /\ pc \in {"scored", "resolved"}
    /\ runs < MaxRuns
    /\ IF majority_bonuses_raises(player_scores)
       THEN /\ pc' = "failed"
            /\ error' = "IndexError"
            /\ UNCHANGED <<player_scores, runs>>
       ELSE /\ pc' = "resolved"
            /\ player_scores' = calculate_majority_bonuses(player_scores)
            /\ runs' = runs + 1
            /\ UNCHANGED error
    /\ UNCHANGED <<player_boards, scoring_cards, winner, positions, detected>>

\* winner_id, winner_explanation = scorer.determine_winner(player_scores)
DetermineWinner ==
    /\ pc = "resolved"
    /\ IF determine_winner_raises(player_scores)
       THEN /\ pc' = "failed"
            /\ error' = "IndexError"
            /\ UNCHANGED winner
       ELSE /\ pc' = "done"
            /\ winner' = determine_winner(player_scores)
            /\ UNCHANGED error
    /\ UNCHANGED <<player_boards, scoring_cards, player_scores, runs,
                   positions, detected>>

Next == ScorePlayers \/ CalculateMajorityBonuses \/ DetermineWinner

Spec == Init /\ [][Next]_vars

-----------------------------------------------------------------------------
(* One board scored under scoring cards of several shapes *)

MaxSize == 9

\* the cells of a board are rows 0..1 by columns 0..MaxCol
MaxCol == 2

\* the most tokens (or tiles) placed on a board
MaxTokens == 4

\* the shapes of a supplied scoring table, each made from Card A's table
TableShapes == {"standard", "int_keys", "sparse", "no_bucket", "no_scoring"}

\* the keys of the table a shape keeps
KeptKeys(shape, table) ==
    CASE shape = "sparse" ->
             {k \in DOMAIN table : k.kind # "digits" \/ k.n % 2 = 1}
      [] shape = "no_bucket" -> {k \in DOMAIN table : k.kind # "plus"}
      [] OTHER -> DOMAIN table

\* the key as the shape writes it: digit strings become integers in int_keys
ShapedKey(shape, k) ==
    IF shape = "int_keys" /\ k.kind = "digits" THEN IntKey(k.n) ELSE k

ShapedTable(shape, table) ==
    Dict({<<ShapedKey(shape, k), table[k]>> : k \in KeptKeys(shape, table)})

\* the card of a species in a shape: no_scoring has the rule text alone
ShapedCard(shape, card) ==
    IF shape = "no_scoring" THEN Dict({<<"rule", card["rule"]>>})
    ELSE Dict({<<"rule", card["rule"]>>,
               <<"scoring", ShapedTable(shape, card["scoring"])>>})

\* scoring cards with the species in `absent` left out
CardsOf(shape, absent) ==
    [sp \in Species \ absent |-> ShapedCard(shape, StandardCards[sp])]

\* the list of the pattern sizes among n, m that are not 0
Sizes(n, m) ==
    (IF n > 0 THEN <<n>> ELSE <<>>) \o (IF m > 0 THEN <<m>> ELSE <<>>)

\* a board whose patterns have the sizes n and m
BoardOfSizes(n, m) ==
    [player_id         |-> 1,
     nature_tokens     |-> 1,
     largest_habitats  |-> HabitatsOf(1, 1),
     wildlife_patterns |->
         Dict({<<"bear_pairs", m>>, <<"elk_lines", Sizes(n, m)>>,
               <<"salmon_runs", Sizes(n, m)>>, <<"isolated_hawks", n>>,
               <<"fox_neighbors", <<n, m>>>>})]

InitTables ==
    /\ \E n, m \in 0..MaxSize : player_boards = <<BoardOfSizes(n, m)>>
    /\ \E shape \in TableShapes, absent \in SUBSET Species :
          scoring_cards = CardsOf(shape, absent)
    /\ player_scores = <<>>
    /\ pc = "boards"
    /\ error = "none"
    /\ runs = 0
    /\ winner = NoWinner
    /\ positions = <<>>
    /\ detected = NoResult

SpecTables == InitTables /\ [][Next]_vars

-----------------------------------------------------------------------------
(* CascadiaScoringRules (src/scoring_rules.py): scores from token positions. *)
(* A list index is 1-based here and 0-based in the source.                   *)

\* abs(a - b)
AbsDiff(a, b) == IF a >= b THEN a - b ELSE b - a

\* _are_adjacent
are_adjacent(pos1, pos2) ==
    LET row_diff == AbsDiff(pos1.row, pos2.row)
        col_diff == AbsDiff(pos1.col, pos2.col)
    IN  \/ row_diff = 0 /\ col_diff = 1
        \/ row_diff = 1 /\ col_diff = 0
        \/ row_diff = 1 /\ col_diff = 1

\* adjacency[i], built by the inner loop over j = from..len: the indices of
\* the positions adjacent to position i, in list order
RECURSIVE AdjacentFrom(_, _, _)
AdjacentFrom(ps, i, from) ==
    IF from > Len(ps) THEN <<>>
    ELSE IF i # from /\ are_adjacent(ps[i], ps[from])
         THEN <<from>> \o AdjacentFrom(ps, i, from + 1)
         ELSE AdjacentFrom(ps, i, from + 1)

\* the adjacency map of score_bears_pairs and score_salmon_runs
AdjacencyMap(ps) == [i \in 1..Len(ps) |-> AdjacentFrom(ps, i, 1)]

\* the pair test with the neighbour's own neighbour count left unchecked
ValidPair_any_degree(adjacency, i) ==
    /\ Len(adjacency[i]) = 1
    /\ LET j == adjacency[i][1]
       IN  Len(adjacency[j]) >= 1 /\ adjacency[j][1] = i

\* bear i is part of a valid pair: it has one neighbour j, whose only
\* neighbour is i
ValidPair(adjacency, i) ==
    /\ Len(adjacency[i]) = 1
    /\ LET j == adjacency[i][1]
       IN  Len(adjacency[j]) = 1 /\ adjacency[j][1] = i

\* the loop over i of score_bears_pairs; the pairs found are kept as <<i, j>>
\* (the source counts them and lists them in its explanation)
RECURSIVE BearPairsFrom(_, _, _, _)
BearPairsFrom(adjacency, i, visited, pairs) ==
    IF i > Len(adjacency) THEN pairs
    ELSE IF i \in visited THEN BearPairsFrom(adjacency, i + 1, visited, pairs)
    ELSE IF ValidPair(adjacency, i)
         THEN BearPairsFrom(adjacency, i + 1,
                            visited \cup {i, adjacency[i][1]},
                            Append(pairs, <<i, adjacency[i][1]>>))
         ELSE BearPairsFrom(adjacency, i + 1, visited, pairs)

\* score_bears_pairs
score_bears_pairs(bear_positions) ==
    LET pairs == BearPairsFrom(AdjacencyMap(bear_positions), 1, {}, <<>>)
    IN  [op |-> "bear", score |-> Len(pairs) * 4, pairs |-> pairs]

\* _find_straight_lines: {1: len(positions)}, every elk a line of 1
find_straight_lines(ps) == Dict({<<1, Len(ps)>>})

\* the points of one line length in score_elk_lines
ElkLinePoints(line_length) ==
    CASE line_length = 1 -> 2
      [] line_length = 2 -> 5
      [] line_length = 3 -> 9
      [] OTHER           -> 13

\* the loop over lines.items()
RECURSIVE ElkLinesTotal(_)
ElkLinesTotal(lines) ==
    IF DOMAIN lines = {} THEN 0
    ELSE LET line_length == CHOOSE x \in DOMAIN lines : TRUE
             rest == [x \in DOMAIN lines \ {line_length} |-> lines[x]]
         IN  ElkLinePoints(line_length) * lines[line_length]
             + ElkLinesTotal(rest)

\* score_elk_lines
score_elk_lines(elk_positions) ==
    IF elk_positions = <<>> THEN [op |-> "elk", score |-> 0, lines |-> <<>>]
    ELSE LET lines == find_straight_lines(elk_positions)
         IN  [op |-> "elk", score |-> ElkLinesTotal(lines), lines |-> lines]

\* hawk i is adjacent to no other hawk
IsIsolated(hawk_positions, i) ==
    \A j \in 1..Len(hawk_positions) :
        ~(i # j /\ are_adjacent(hawk_positions[i], hawk_positions[j]))

\* score_hawks_isolated
score_hawks_isolated(hawk_positions) ==
    LET isolated_count ==
            Cardinality({i \in 1..Len(hawk_positions) :
                            IsIsolated(hawk_positions, i)})
    IN  [op |-> "hawk", score |-> isolated_count * 5,
         isolated_count |-> isolated_count]

\* len(set(fox.adjacent_animals))
UniqueNeighbors(fox) ==
    Cardinality({fox.adjacent_animals[k] :
                    k \in 1..Len(fox.adjacent_animals)})

\* the points of one fox in score_foxes_variety
FoxVarietyPoints(unique_neighbors) ==
    CASE unique_neighbors = 0 -> 0
      [] unique_neighbors = 1 -> 1
      [] unique_neighbors = 2 -> 3
      [] unique_neighbors = 3 -> 5
      [] OTHER                -> 8

\* the loop over the foxes
RECURSIVE FoxVarietyTotal(_)
FoxVarietyTotal(fox_positions) ==
    IF fox_positions = <<>> THEN 0
    ELSE FoxVarietyPoints(UniqueNeighbors(Head(fox_positions)))
         + FoxVarietyTotal(Tail(fox_positions))

\* score_foxes_variety
score_foxes_variety(fox_positions) ==
    [op |-> "fox", score |-> FoxVarietyTotal(fox_positions),
     unique_neighbors |->
         [i \in 1..Len(fox_positions) |-> UniqueNeighbors(fox_positions[i])]]

\* the run test of _trace_run with every unvisited neighbour followed
RunMember_any_degree(adjacency, neighbor) == TRUE

\* a neighbour is followed by _trace_run when it has at most 2 neighbours
RunMember(adjacency, neighbor) == Len(adjacency[neighbor]) <= 2

\* _trace_run: [run, visited] after the call; TraceNeighbors is its loop over
\* adjacency[start_idx] from the k-th neighbour on
RECURSIVE trace_run(_, _, _)
RECURSIVE TraceNeighbors(_, _, _, _, _)
TraceNeighbors(start_idx, adjacency, k, run, visited) ==
    IF k > Len(adjacency[start_idx]) THEN [run |-> run, visited |-> visited]
    ELSE LET neighbor == adjacency[start_idx][k]
         IN  IF neighbor \notin visited /\ RunMember(adjacency, neighbor)
             THEN LET sub == trace_run(neighbor, adjacency, visited)
                  IN  TraceNeighbors(start_idx, adjacency, k + 1,
                                     run \o sub.run, sub.visited)
             ELSE TraceNeighbors(start_idx, adjacency, k + 1, run, visited)

trace_run(start_idx, adjacency, visited) ==
    TraceNeighbors(start_idx, adjacency, 1, <<start_idx>>,
                   visited \cup {start_idx})

\* the loop over start_idx of score_salmon_runs; the runs are kept as their
\* index lists (the source keeps len(run) of each)
RECURSIVE SalmonRunsFrom(_, _, _, _)
SalmonRunsFrom(adjacency, start_idx, visited, traced) ==
    IF start_idx > Len(adjacency) THEN traced
    ELSE IF start_idx \in visited
         THEN SalmonRunsFrom(adjacency, start_idx + 1, visited, traced)
    ELSE IF Len(adjacency[start_idx]) <= 2
         THEN LET r == trace_run(start_idx, adjacency, visited)
              IN  SalmonRunsFrom(adjacency, start_idx + 1, r.visited,
                                 IF Len(r.run) > 0 THEN Append(traced, r.run)
                                                   ELSE traced)
         ELSE SalmonRunsFrom(adjacency, start_idx + 1, visited, traced)

\* sum(runs), runs being the lengths of the traced runs
RECURSIVE SumLengths(_)
SumLengths(traced) ==
    IF traced = <<>> THEN 0
    ELSE Len(Head(traced)) + SumLengths(Tail(traced))

\* score_salmon_runs
score_salmon_runs(salmon_positions) ==
    IF salmon_positions = <<>>
    THEN [op |-> "salmon", score |-> 0, traced |-> <<>>]
    ELSE LET traced ==
                 SalmonRunsFrom(AdjacencyMap(salmon_positions), 1, {}, <<>>)
         IN  [op |-> "salmon", score |-> SumLengths(traced),
              traced |-> traced]

\* the adjacency test written out in _flood_fill
FloodAdjacent(start_tile, tile) ==
    LET row_diff == AbsDiff(start_tile.row, tile.row)
        col_diff == AbsDiff(start_tile.col, tile.col)
    IN  \/ row_diff = 0 /\ col_diff = 1
        \/ row_diff = 1 /\ col_diff = 0

\* _flood_fill: [area, visited] after the call; FloodLoop is its loop over
\* enumerate(tiles) from index i on
RECURSIVE flood_fill(_, _, _)
RECURSIVE FloodLoop(_, _, _, _, _)
FloodLoop(start_idx, tiles, i, area, visited) ==
    IF i > Len(tiles) THEN [area |-> area, visited |-> visited]
    ELSE IF i \notin visited /\ FloodAdjacent(tiles[start_idx], tiles[i])
         THEN LET sub == flood_fill(i, tiles, visited)
              IN  FloodLoop(start_idx, tiles, i + 1, area + sub.area,
                            sub.visited)
         ELSE FloodLoop(start_idx, tiles, i + 1, area, visited)

flood_fill(start_idx, tiles, visited) ==
    IF start_idx \in visited THEN [area |-> 0, visited |-> visited]
    ELSE FloodLoop(start_idx, tiles, 1, 1, visited \cup {start_idx})

\* the loop over enumerate(tiles) of _find_largest_contiguous_area
RECURSIVE LargestFrom(_, _, _, _)
LargestFrom(tiles, i, visited, max_area) ==
    IF i > Len(tiles) THEN max_area
    ELSE IF i \notin visited
         THEN LET f == flood_fill(i, tiles, visited)
              IN  LargestFrom(tiles, i + 1, f.visited,
                              IF f.area > max_area THEN f.area ELSE max_area)
         ELSE LargestFrom(tiles, i + 1, visited, max_area)

\* _find_largest_contiguous_area
find_largest_contiguous_area(tiles) ==
    IF tiles = <<>> THEN 0 ELSE LargestFrom(tiles, 1, {}, 0)

\* [t for t in habitat_tiles if t.terrain_type == terrain]
RECURSIVE TilesOfType(_, _)
TilesOfType(habitat_tiles, terrain) ==
    IF habitat_tiles = <<>> THEN <<>>
    ELSE IF Head(habitat_tiles).terrain_type = terrain
         THEN <<Head(habitat_tiles)>>
              \o TilesOfType(Tail(habitat_tiles), terrain)
         ELSE TilesOfType(Tail(habitat_tiles), terrain)

\* score_habitat_corridors
score_habitat_corridors(habitat_tiles) ==
    [op |-> "habitat",
     scores |->
         [terrain \in Terrains |->
             LET tiles_of_type == TilesOfType(habitat_tiles, terrain)
             IN  IF tiles_of_type = <<>> THEN 0
                 ELSE find_largest_contiguous_area(tiles_of_type)]]

-----------------------------------------------------------------------------
(* One board of tokens handed to CascadiaScoringRules.  The list is read as *)
(* the AnimalPosition list of one species (row, col, adjacent_animals; the  *)
(* animal_type is never read) or as the HabitatTile list of the board (row, *)
(* col, terrain_type).                                                      *)

Rows == 0..1
Cols == 0..MaxCol

\* adjacent_animals of the token at a cell: 0 to 5 entries, from no
\* neighbour to four different species, "bear" twice
NeighborTypes == <<"bear", "bear", "elk", "salmon", "hawk">>

AdjacentAnimalsAt(row, col) == SubSeq(NeighborTypes, 1, (row + 2 * col) % 6)

\* terrain_type of the tile at a cell: columns 0 and 1 forest, then river
TerrainAt(row, col) == IF col < 2 THEN "forest" ELSE "river"

\* the AnimalPosition / HabitatTile at a cell
TokenAt(row, col) ==
    [row |-> row, col |-> col,
     adjacent_animals |-> AdjacentAnimalsAt(row, col),
     terrain_type |-> TerrainAt(row, col)]

\* the cells already holding a token
Occupied(ps) == {<<ps[i].row, ps[i].col>> : i \in 1..Len(ps)}

InitBoard ==
    /\ positions = <<>>
    /\ detected = NoResult
    /\ player_boards = <<>>
    /\ scoring_cards = StandardCards
    /\ player_scores = <<>>
    /\ pc = "boards"
    /\ error = "none"
    /\ runs = 0
    /\ winner = NoWinner

\* one more token on an unoccupied cell, at the end of the list
AddToken ==
    /\ Len(positions) < MaxTokens
    /\ \E row \in Rows, col \in Cols :
          /\ <<row, col>> \notin Occupied(positions)
          /\ positions' = Append(positions, TokenAt(row, col))
    /\ detected' = NoResult
    /\ UNCHANGED <<player_boards, scoring_cards, player_scores, pc, error,
                   runs, winner>>

\* what a call of a CascadiaScoringRules method leaves as it was
held == <<positions, player_boards, scoring_cards, player_scores, pc, error,
          runs, winner>>

ScoreBearsPairs ==
    /\ detected' = score_bears_pairs(positions)
    /\ UNCHANGED held

ScoreElkLines ==
    /\ detected' = score_elk_lines(positions)
    /\ UNCHANGED held

ScoreSalmonRuns ==
    /\ detected' = score_salmon_runs(positions)
    /\ UNCHANGED held

ScoreHawksIsolated ==
    /\ detected' = score_hawks_isolated(positions)
    /\ UNCHANGED held

ScoreFoxesVariety ==
    /\ detected' = score_foxes_variety(positions)
    /\ UNCHANGED held

ScoreHabitatCorridors ==
    /\ detected' = score_habitat_corridors(positions)
    /\ UNCHANGED held

NextBoard ==
    \/ AddToken
    \/ ScoreBearsPairs
    \/ ScoreElkLines
    \/ ScoreSalmonRuns
    \/ ScoreHawksIsolated
    \/ ScoreFoxesVariety
    \/ ScoreHabitatCorridors

SpecBoard == InitBoard /\ [][NextBoard]_vars

-----------------------------------------------------------------------------
(* Vocabulary of the properties *)

NumPlayers == Len(player_scores)

Players == 1..NumPlayers

\* the records are those of different players
DistinctIds ==
    \A i, j \in Players :
        i # j => player_scores[i].player_id # player_scores[j].player_id

\* player i's habitat score for a terrain
Hab(i, t) == Get(player_scores[i].habitat_scores, t, 0)

\* player i has a majority bonus entry for a terrain
HasBonus(i, t) == t \in DOMAIN player_scores[i].majority_bonuses

\* the points of that entry, 0 without one
Bonus(i, t) == Get(player_scores[i].majority_bonuses, t, 0)

TopScore(t) == Max({Hab(i, t) : i \in Players})

Leaders(t) == {i \in Players : Hab(i, t) = TopScore(t)}

\* the players below the top score, and the best score among them
Others(t) == Players \ Leaders(t)

SecondScore(t) == Max({Hab(i, t) : i \in Others(t)})

Seconds(t) == {i \in Others(t) : Hab(i, t) = SecondScore(t)}

\* the bonus points awarded for a terrain, over all players
TerrainBonusSum(t) == SumValues([i \in Players |-> Bonus(i, t)])

\* total_score as the literal sum of the record's own fields
FieldSum(ps) ==
    ps.animal_scores["bear"] + ps.animal_scores["elk"]
    + ps.animal_scores["salmon"] + ps.animal_scores["hawk"]
    + ps.animal_scores["fox"]
    + ps.habitat_total
    + Get(ps.majority_bonuses, "mountain", 0)
    + Get(ps.majority_bonuses, "forest", 0)
    + Get(ps.majority_bonuses, "prairie", 0)
    + Get(ps.majority_bonuses, "wetland", 0)
    + Get(ps.majority_bonuses, "river", 0)
    + ps.nature_tokens

HabitatSum(ps) ==
    Get(ps.habitat_scores, "mountain", 0) + Get(ps.habitat_scores, "forest", 0)
    + Get(ps.habitat_scores, "prairie", 0) + Get(ps.habitat_scores, "wetland", 0)
    + Get(ps.habitat_scores, "river", 0)

-----------------------------------------------------------------------------
(* C1: in a resolved game of exactly 2 players, for every terrain: the      *)
(* player with the strictly higher habitat score has a bonus of 2 and the   *)
(* other none; equal scores above 0 give each player 1; two scores of 0     *)
(* give neither player a bonus.                                             *)
C1_TwoPlayerBonus ==
    (pc = "resolved" /\ NumPlayers = 2 /\ DistinctIds) =>
        \A t \in Terrains : \A i, j \in Players :
            i # j =>
                /\ Hab(i, t) > Hab(j, t) =>
                       /\ HasBonus(i, t) /\ Bonus(i, t) = 2
                       /\ ~HasBonus(j, t)
                /\ (Hab(i, t) = Hab(j, t) /\ Hab(i, t) > 0) =>
                       /\ HasBonus(i, t) /\ Bonus(i, t) = 1
                       /\ HasBonus(j, t) /\ Bonus(j, t) = 1
                /\ (Hab(i, t) = 0 /\ Hab(j, t) = 0) =>
                       ~HasBonus(i, t) /\ ~HasBonus(j, t)

\* a resolved 2-player game with a won terrain, a terrain tied above 0 and a
\* terrain tied at 0
C1_Witness ==
    /\ pc = "resolved" /\ NumPlayers = 2 /\ DistinctIds
    /\ \E t \in Terrains : Hab(1, t) > Hab(2, t) /\ Bonus(1, t) = 2
    /\ \E t \in Terrains : Hab(1, t) = Hab(2, t) /\ Bonus(1, t) = 1
    /\ \E t \in Terrains : Hab(1, t) = 0 /\ Hab(2, t) = 0

(* C2: in a resolved game of 3 or 4 players, for every terrain whose top    *)
(* score is above 0 and held by one player: that player has a bonus of 3;   *)
(* the holder of the second-highest score has 1 only if that score is above *)
(* 0 and held by one player; players tied for second, and every other       *)
(* player, have no bonus for the terrain.                                   *)
C2_UniqueLeaderBonus ==
    (pc = "resolved" /\ NumPlayers \in {3, 4} /\ DistinctIds) =>
        \A t \in Terrains :
            (TopScore(t) > 0 /\ Cardinality(Leaders(t)) = 1) =>
                /\ \A i \in Leaders(t) : HasBonus(i, t) /\ Bonus(i, t) = 3
                /\ \A i \in Others(t) :
                       IF /\ Hab(i, t) = SecondScore(t)
                          /\ SecondScore(t) > 0
                          /\ Cardinality(Seconds(t)) = 1
                       THEN HasBonus(i, t) /\ Bonus(i, t) = 1
                       ELSE ~HasBonus(i, t)

\* 4 players, one leader, two players tied for second above 0 and a fourth
\* player below them
C2_Witness ==
    /\ pc = "resolved" /\ NumPlayers = 4 /\ DistinctIds
    /\ \E t \in Terrains :
          /\ Cardinality(Leaders(t)) = 1
          /\ \A i \in Leaders(t) : Bonus(i, t) = 3
          /\ SecondScore(t) > 0
          /\ Cardinality(Seconds(t)) = 2
          /\ \A i \in Others(t) : ~HasBonus(i, t)

(* C3: in a resolved game of 3 or 4 players, for every terrain whose top    *)
(* score is above 0: two players sharing the top score have 2 each, three   *)
(* or more sharing it have 1 each, and in both cases no player below the    *)
(* top score has a bonus for the terrain.                                   *)
C3_TiedLeadersBonus ==
    (pc = "resolved" /\ NumPlayers \in {3, 4} /\ DistinctIds) =>
        \A t \in Terrains :
            (TopScore(t) > 0 /\ Cardinality(Leaders(t)) >= 2) =>
                /\ \A i \in Leaders(t) :
                       /\ HasBonus(i, t)
                       /\ Bonus(i, t) =
                              IF Cardinality(Leaders(t)) = 2 THEN 2 ELSE 1
                /\ \A i \in Others(t) : ~HasBonus(i, t)

\* 4 players: a terrain with three leaders and a fourth player above 0, and
\* a terrain with two leaders
C3_Witness ==
    /\ pc = "resolved" /\ NumPlayers = 4 /\ DistinctIds
    /\ \E t \in Terrains :
          /\ Cardinality(Leaders(t)) = 3
          /\ \A i \in Leaders(t) : Bonus(i, t) = 1
          /\ \E i \in Others(t) : Hab(i, t) > 0 /\ ~HasBonus(i, t)
    /\ \E t \in Terrains :
          /\ TopScore(t) > 0
          /\ Cardinality(Leaders(t)) = 2
          /\ \A i \in Leaders(t) : Bonus(i, t) = 2

(* C4: applying the resolver to player scores it has just resolved (players *)
(* of distinct ids) leaves every player's majority_bonuses and total_score  *)
(* as they were.                                                            *)
C4_ResolverIdempotent ==
    [][(pc = "resolved" /\ pc' = "resolved" /\ DistinctIds) =>
          \A i \in Players :
              /\ player_scores'[i].majority_bonuses =
                     player_scores[i].majority_bonuses
              /\ player_scores'[i].total_score = player_scores[i].total_score
      ]_vars

\* the resolver has been applied twice and bonuses were awarded
C4_Witness ==
    /\ pc = "resolved" /\ runs = 2 /\ DistinctIds
    /\ \E i \in Players : \E t \in Terrains : Bonus(i, t) > 0

(* C5: after the players are scored and after the bonuses are resolved,     *)
(* every player's total_score is the sum of its five animal scores, its     *)
(* habitat_total, its majority bonuses and its nature_tokens, and its       *)
(* habitat_total is the sum of its per-terrain habitat scores.              *)
C5_TotalIsSumOfFields ==
    pc \in {"scored", "resolved"} =>
        \A i \in Players :
            /\ player_scores[i].total_score = FieldSum(player_scores[i])
            /\ player_scores[i].habitat_total = HabitatSum(player_scores[i])

\* a twice-resolved player with animal points, bonus points and nature tokens
C5_Witness ==
    /\ pc = "resolved" /\ runs = 2
    /\ \E i \in Players :
          /\ \E t \in Terrains : Bonus(i, t) > 0
          /\ player_scores[i].nature_tokens > 0
          /\ player_scores[i].animal_scores["salmon"] > 0
          /\ player_scores[i].total_score > player_scores[i].habitat_total

(* C6: in a resolved game of any number of players, a player has a majority *)
(* bonus entry for a terrain only if its own habitat score for that terrain *)
(* is above 0; a terrain whose top score is 0 gives nobody a bonus.         *)
C6_BonusOnlyAboveZero ==
    (pc = "resolved" /\ DistinctIds) =>
        \A t \in Terrains : \A i \in Players : HasBonus(i, t) => Hab(i, t) > 0

\* 3 or more players, a terrain where every score is 0 and a terrain where
\* one player has a bonus and a player at 0 has none
C6_Witness ==
    /\ pc = "resolved" /\ DistinctIds /\ NumPlayers >= 3
    /\ \E t \in Terrains : TopScore(t) = 0 /\ \A i \in Players : ~HasBonus(i, t)
    /\ \E t \in Terrains : \E i, j \in Players :
          HasBonus(i, t) /\ Hab(j, t) = 0 /\ ~HasBonus(j, t)

(* C7, as stated: with one player at the top score of a terrain, the bonus  *)
(* points awarded for the terrain over all players are at most 2 in a       *)
(* 2-player game and at most 3 in a 3- or 4-player game.                    *)
C7_LeaderSumAtMostThree ==
    (pc = "resolved" /\ DistinctIds /\ NumPlayers \in {2, 3, 4}) =>
        \A t \in Terrains :
            Cardinality(Leaders(t)) = 1 =>
                TerrainBonusSum(t) <= (IF NumPlayers = 2 THEN 2 ELSE 3)

(* C7, amended: with one player at the top score of a terrain, the bonus    *)
(* points awarded for the terrain are at most 2 in a 2-player game and at   *)
(* most 4 in a 3- or 4-player game (3 for the leader and 1 for a single     *)
(* second-placed player), the leader alone never having more than 3.        *)
C7_LeaderSumAtMostFour ==
    (pc = "resolved" /\ DistinctIds /\ NumPlayers \in {2, 3, 4}) =>
        \A t \in Terrains :
            Cardinality(Leaders(t)) = 1 =>
                /\ TerrainBonusSum(t) <= (IF NumPlayers = 2 THEN 2 ELSE 4)
                /\ \A i \in Leaders(t) : Bonus(i, t) <= 3

\* 4 players, a leader with 3 and a single second-placed player with 1
C7_Witness ==
    /\ pc = "resolved" /\ DistinctIds /\ NumPlayers = 4
    /\ \E t \in Terrains :
          /\ Cardinality(Leaders(t)) = 1
          /\ Cardinality(Seconds(t)) = 1
          /\ TerrainBonusSum(t) = 4

-----------------------------------------------------------------------------
(* Vocabulary of the determine_winner property *)

\* the highest total_score of the game
TopTotal == Max({player_scores[i].total_score : i \in Players})

\* the players holding the highest total_score
TopTotalPlayers == {i \in Players : player_scores[i].total_score = TopTotal}

\* the most nature tokens among the players holding the highest total_score
TopTokens == Max({player_scores[i].nature_tokens : i \in TopTotalPlayers})

\* the players first in the order by (total_score, nature_tokens)
TopPlayers ==
    {i \in TopTotalPlayers : player_scores[i].nature_tokens = TopTokens}

-----------------------------------------------------------------------------
C11_WitnessShared == pc = "done" /\ winner.how = "shared" /\ NumPlayers > 1

C11_WitnessPoints == pc = "done" /\ winner.how = "points" /\ NumPlayers > 1

-----------------------------------------------------------------------------
(* C13: score_game, given boards in which a player_id occurs more than      *)
(* once, does not return scores: a returned result never has the terrain    *)
(* bonus earned by a record of a duplicated player_id (the only record at   *)
(* a top score above 0) missing from that record or credited to the other   *)
(* record of the same id.                                                   *)
C13_DuplicateIdsRejected ==
    (pc \in {"resolved", "done"} /\ ~DistinctIds) =>
        \A t \in Terrains : \A i, j \in Players :
            ( /\ i # j
              /\ player_scores[i].player_id = player_scores[j].player_id
              /\ Leaders(t) = {i}
              /\ Hab(i, t) > 0 )
            => (HasBonus(i, t) /\ ~HasBonus(j, t))

-----------------------------------------------------------------------------
(* Vocabulary of the token-position properties *)

Tokens == 1..Len(positions)

\* the tokens of the list adjacent to token i
NeighborsOf(i) ==
    {j \in Tokens : j # i /\ are_adjacent(positions[i], positions[j])}

\* the pairs of tokens adjacent to each other and to no other token
ExclusivePairs ==
    {pr \in SUBSET Tokens :
        /\ Cardinality(pr) = 2
        /\ \A i \in pr : NeighborsOf(i) = pr \ {i}}

\* the pairs score_bears_pairs counted, each as the set of its two bears
CountedPairs == {{detected.pairs[k][1], detected.pairs[k][2]} :
                    k \in 1..Len(detected.pairs)}

-----------------------------------------------------------------------------
(* C14: score_bears_pairs counts one pair exactly for each two bears that    *)
(* are adjacent to each other and to no other bear: no pair is counted       *)
(* twice, no bear is in two counted pairs, a bear with 0 or with 2 or more   *)
(* bear neighbours is in no counted pair, and the score is 4 times the       *)
(* number of pairs.                                                          *)
C14_BearPairsExclusive ==
    detected.op = "bear" =>
        /\ CountedPairs = ExclusivePairs
        /\ Len(detected.pairs) = Cardinality(ExclusivePairs)
        /\ \A pr, qr \in CountedPairs : pr # qr => pr \cap qr = {}
        /\ \A i \in Tokens :
              Cardinality(NeighborsOf(i)) # 1 =>
                  \A pr \in CountedPairs : i \notin pr
        /\ detected.score = 4 * Cardinality(ExclusivePairs)

\* three mutually adjacent bears, scored 0
C14_Witness ==
    /\ detected.op = "bear"
    /\ Len(positions) = 3
    /\ \A i \in Tokens : Cardinality(NeighborsOf(i)) = 2
    /\ detected.score = 0

\* a pair counted next to a bear with no neighbour
C14_WitnessPair ==
    /\ detected.op = "bear"
    /\ detected.score = 4
    /\ \E i \in Tokens : NeighborsOf(i) = {}

-----------------------------------------------------------------------------
(* Vocabulary of the habitat properties *)

\* the tiles of a terrain
TilesOf(ps, terrain) == {i \in 1..Len(ps) : ps[i].terrain_type = terrain}

\* the tiles of `among` connected to a tile of `part` under _are_adjacent
RECURSIVE Connected(_, _, _)
Connected(ps, part, among) ==
    LET more == part \cup {j \in among :
                              \E i \in part : are_adjacent(ps[i], ps[j])}
    IN  IF more = part THEN part ELSE Connected(ps, more, among)

\* the connected components of the tiles of a terrain under _are_adjacent
Components(ps, terrain) ==
    {Connected(ps, {i}, TilesOf(ps, terrain)) : i \in TilesOf(ps, terrain)}

\* the size of the largest of them, 0 without a tile
LargestComponent(ps, terrain) ==
    IF TilesOf(ps, terrain) = {} THEN 0
    ELSE Max({Cardinality(comp) : comp \in Components(ps, terrain)})

-----------------------------------------------------------------------------
(* C15: for every terrain, score_habitat_corridors reports the size of the  *)
(* largest connected component of the tiles of that terrain, connectivity   *)
(* taken under _are_adjacent; a terrain with no tiles scores 0.             *)
C15_LargestComponentUnderAreAdjacent ==
    detected.op = "habitat" =>
        \A terrain \in Terrains :
            detected.scores[terrain] = LargestComponent(positions, terrain)

\* adding a tile never makes the value for its terrain smaller
HabitatNeverShrinks ==
    [][AddToken =>
        LET terrain == positions'[Len(positions')].terrain_type
        IN  find_largest_contiguous_area(TilesOfType(positions', terrain))
            >= find_largest_contiguous_area(TilesOfType(positions, terrain))
      ]_vars

-----------------------------------------------------------------------------
(* C16: adding one tile at an unoccupied position never makes the value of  *)
(* _find_largest_contiguous_area for the tiles of the new tile's terrain    *)
(* smaller, and makes it at least 1 greater when the new tile is adjacent   *)
(* (_are_adjacent) to a tile of a largest component.                        *)
C16_HabitatMonotonic ==
    [][AddToken =>
        LET new == positions'[Len(positions')]
            terrain == new.terrain_type
            before == find_largest_contiguous_area(
                          TilesOfType(positions, terrain))
            after == find_largest_contiguous_area(
                          TilesOfType(positions', terrain))
        IN  /\ after >= before
            /\ (\E comp \in Components(positions, terrain) :
                    /\ Cardinality(comp) = LargestComponent(positions, terrain)
                    /\ \E i \in comp : are_adjacent(positions[i], new))
               => after >= before + 1]_vars

\* the places <<run, position in the run>> where salmon i was traced
TracedAt(i) ==
    {place \in (1..Len(detected.traced)) \X Tokens :
        /\ place[2] <= Len(detected.traced[place[1]])
        /\ detected.traced[place[1]][place[2]] = i}

-----------------------------------------------------------------------------
(* C17: in score_salmon_runs a salmon with more than 2 adjacent salmon is a *)
(* member of no traced run, and every salmon with at most 2 adjacent salmon *)
(* occurs exactly once in exactly one traced run.                           *)

C17_SalmonRunMembership ==
    detected.op = "salmon" =>
        \A i \in Tokens :
            IF Cardinality(NeighborsOf(i)) > 2
            THEN TracedAt(i) = {}
            ELSE Cardinality(TracedAt(i)) = 1

\* a salmon with 3 neighbours left out, next to a run of 2 and another run
C17_Witness ==
    /\ detected.op = "salmon"
    /\ \E i \in Tokens : Cardinality(NeighborsOf(i)) > 2
    /\ Len(detected.traced) >= 2
    /\ \E k \in 1..Len(detected.traced) : Len(detected.traced[k]) >= 2

-----------------------------------------------------------------------------
(* Vocabulary of the two input forms *)

\* the wildlife_patterns entry that sums up what the detector found on the
\* list: the pairs counted, a line of 1 per elk (_find_straight_lines), the
\* lengths of the traced runs, the isolated hawks, the unique neighbours of
\* each fox
SummaryOf(found) ==
    CASE found.op = "bear" ->
            Dict({<<"bear_pairs", Len(found.pairs)>>})
      [] found.op = "elk" ->
            Dict({<<"elk_lines",
                    IF found.lines = <<>> THEN <<>>
                    ELSE [i \in 1..found.lines[1] |-> 1]>>})
      [] found.op = "salmon" ->
            Dict({<<"salmon_runs",
                    [k \in 1..Len(found.traced) |-> Len(found.traced[k])]>>})
      [] found.op = "hawk" ->
            Dict({<<"isolated_hawks", found.isolated_count>>})
      [] found.op = "fox" ->
            Dict({<<"fox_neighbors", found.unique_neighbors>>})

\* the PlayerBoard carrying that summary
SummaryBoard(found) ==
    [player_id         |-> 1,
     nature_tokens     |-> 0,
     largest_habitats  |-> EmptyDict,
     wildlife_patterns |-> SummaryOf(found)]

-----------------------------------------------------------------------------
(* C12: the score a detector of CascadiaScoringRules computes for a species *)
(* from the token positions equals the score _score_player computes for     *)
(* that species from the equivalent wildlife_patterns summary under the     *)
(* standard scoring tables.                                                 *)
C12_DetectorsAgreeWithSummary ==
    detected.op \in Species =>
        detected.score =
            score_player(SummaryBoard(detected),
                         scoring_cards).animal_scores[detected.op]

\* the same for bears and elk only
C12_BearsAndElkAgree ==
    detected.op \in {"bear", "elk"} =>
        detected.score =
            score_player(SummaryBoard(detected),
                         scoring_cards).animal_scores[detected.op]

-----------------------------------------------------------------------------
(* Vocabulary of the scoring-table properties *)

\* the scoring table supplied for a species, {} when none is
SuppliedRules(sp) ==
    IF sp \in DOMAIN scoring_cards /\ "scoring" \in DOMAIN scoring_cards[sp]
    THEN scoring_cards[sp]["scoring"]
    ELSE EmptyDict

\* the numbers a table has a purely numeric key for
NumericKeys(rules) == {k.n : k \in {x \in DOMAIN rules : x.kind \in {"digits", "int"}}}

\* the open-ended bucket keys of a table
BucketKeys(rules) == {k \in DOMAIN rules : k.kind = "plus"}

\* the pattern sizes of the scored board that a species' table is read at
PatternSizes(sp) ==
    LET patterns == player_boards[1].wildlife_patterns
    IN  CASE sp = "elk"    -> patterns["elk_lines"]
          [] sp = "salmon" -> patterns["salmon_runs"]
          [] sp = "hawk"   -> <<patterns["isolated_hawks"]>>
          [] sp = "fox"    -> patterns["fox_neighbors"]

\* where the open-ended bucket of a species starts (elk "4+", salmon "5+",
\* hawk "8+"); the fox table has none
BucketThreshold(sp) ==
    CASE sp = "elk" -> 4 [] sp = "salmon" -> 5 [] sp = "hawk" -> 8
      [] OTHER -> MaxSize + 2

\* the size has no entry in the table and lies below every open-ended bucket
MissingBelowBucket(sp, rules, size) ==
    /\ size \notin NumericKeys(rules)
    /\ size < BucketThreshold(sp)
    /\ \A k \in BucketKeys(rules) : size < k.n

\* Card A's points for a pattern size, as the documentation lists them
CardAPoints(sp, size) ==
    CASE sp = "elk" ->
             CASE size = 1 -> 2 [] size = 2 -> 5 [] size = 3 -> 9
               [] size >= 4 -> 13 [] OTHER -> 0
      [] sp = "salmon" ->
             CASE size = 1 -> 2 [] size = 2 -> 5 [] size = 3 -> 8
               [] size = 4 -> 11 [] size >= 5 -> 14 [] OTHER -> 0
      [] sp = "hawk" ->
             CASE size = 1 -> 2 [] size = 2 -> 5 [] size = 3 -> 8
               [] size = 4 -> 11 [] size = 5 -> 14 [] size = 6 -> 18
               [] size = 7 -> 22 [] size >= 8 -> 26 [] OTHER -> 0
      [] sp = "fox" -> IF size \in 1..5 THEN size ELSE 0

RECURSIVE CardATotal(_, _)
CardATotal(sp, sizes) ==
    IF sizes = <<>> THEN 0
    ELSE CardAPoints(sp, Head(sizes)) + CardATotal(sp, Tail(sizes))

(* C8: for a supplied table with an open-ended bucket key (elk, salmon,     *)
(* hawk), pattern sizes above the table's highest purely numeric key (and   *)
(* so covered by the bucket, which starts at or below them) are each scored *)
(* with the value stored under the bucket key: 8 or more isolated hawks     *)
(* under Card A score the "8+" value 26.                                    *)
C8_OpenBucketValue ==
    pc = "scored" =>
        \A sp \in {"elk", "salmon", "hawk"} :
            LET rules == SuppliedRules(sp)
                sizes == PatternSizes(sp)
            IN  (/\ BucketKeys(rules) # {}
                 /\ NumericKeys(rules) # {}
                 /\ sizes # <<>>
                 /\ \A i \in 1..Len(sizes) :
                        /\ sizes[i] > Max(NumericKeys(rules))
                        /\ \A k \in BucketKeys(rules) : sizes[i] >= k.n)
                => player_scores[1].animal_scores[sp] =
                       Len(sizes) * rules[CHOOSE k \in BucketKeys(rules) : TRUE]

(* C9: a species with no entry in scoring_cards is scored with Card A's     *)
(* table (bear pair 4, elk 2/5/9/13, salmon 2/5/8/11/14, the hawk table     *)
(* capped at 8+, fox 1..5), and its score equals the score obtained when    *)
(* Card A's card of the species is passed explicitly.                       *)
C9_AbsentSpeciesDefault ==
    pc = "scored" =>
        \A sp \in Species \ DOMAIN scoring_cards :
            /\ player_scores[1].animal_scores[sp] =
                   score_player(player_boards[1],
                                Put(scoring_cards, sp, StandardCards[sp])
                               ).animal_scores[sp]
            /\ player_scores[1].animal_scores[sp] =
                   IF sp = "bear"
                   THEN 4 * player_boards[1].wildlife_patterns["bear_pairs"]
                   ELSE CardATotal(sp, PatternSizes(sp))

(* C10: scoring never raises, and for every species with a supplied table,  *)
(* pattern sizes that have no entry in the table and lie below the          *)
(* open-ended bucket contribute 0 to the species' score.                    *)
C10_MissingSizeScoresZero ==
    /\ error = "none"
    /\ pc = "scored" =>
           \A sp \in {"elk", "salmon", "hawk", "fox"} :
               LET rules == SuppliedRules(sp)
                   sizes == PatternSizes(sp)
               IN  (/\ sp \in DOMAIN scoring_cards
                    /\ "scoring" \in DOMAIN scoring_cards[sp]
                    /\ \A i \in 1..Len(sizes) :
                           MissingBelowBucket(sp, rules, sizes[i]))
                   => player_scores[1].animal_scores[sp] = 0

=============================================================================
